---------------------------- MODULE Spec2Model ----------------------------
(***************************************************************************)
(* Model of the scan-transform-load pipeline of gocb-example               *)
(* (src/unnamed/part_001, the version starting at line 462):               *)
(*   ForEachDocIdBucketViews            the paginated view scan            *)
(*   ForEachDocIdBucketViewsConcurrent  bounded channel + worker pool      *)
(*   CopyBucketWithCallback.copyEachDoc single / bulk insert               *)
(*   CopyBucketAddXATTRS.postInsertCallback  CAS-guarded xattr attach      *)
(*   CopyBucketAnonymizeDoc.preInsertCallback  anonymizing rewrite         *)
(*   GetXattrs                          read-back of the xattr             *)
(*                                                                         *)
(* Document ids are the integers 1..MaxDocs, document bodies are integers. *)
(* The two compile-time settings of the source, the page size              *)
(* (pageSizeViewResult = 1000) and the number of worker goroutines         *)
(* (numGoRoutinesConcurrentViewResult = 1), are configuration chosen in    *)
(* Init from 1..MaxPageSize and 1..MaxGoRoutines.                          *)
(***************************************************************************)
EXTENDS Integers, Sequences, FiniteSets, TLC

\* ------------------------------------------------------------------ bounds
MaxDocs == 6          \* largest source collection
MaxPageSize == 2      \* largest page size
MaxGoRoutines == 2    \* largest worker pool
MaxPre == 2           \* ids 1..MaxPre may pre-exist in the target
MaxHookDocs == 3      \* largest source collection of the runs of SpecHooks
MaxPasses == 2        \* calls of AddNameSpaceToTypeFieldViaSubdoc in a row
MaxQueries == 6       \* largest number of page queries of the per-document scan

Ids == 1 .. MaxDocs

\* the key space of the target bucket: the ids of the source documents and
\* the ids the anonymizer makes of them
TargetIds == 1 .. 2 * MaxDocs

Min(a, b) == IF a < b THEN a ELSE b
SetMin(S) == CHOOSE x \in S : \A y \in S : x <= y

\* ------------------------------------------------------------- data model
\* body of source document i, and body of a document i that was in the
\* target before the run
SrcVal(i) == 100 + i
OldVal(i) == 200 + i

\* name of the source bucket, e.SourceBucket.Name()
SourceName == "travel-sample"

\* a target slot that holds no document
Absent == [present |-> FALSE, val |-> 0, cas |-> 0, xattr |-> "none"]

\* error values; "of" is the set of document ids whose operation produced the
\* error value
Nil == [kind |-> "nil", of |-> {}]
Err(k, S) == [kind |-> k, of |-> S]

\* type DocProcessorInput
DocProcessorInput(ids, ds) == [DocIds |-> ids, Docs |-> ds]
EmptyInput == DocProcessorInput(<<>>, <<>>)

VARIABLES
    \* configuration and the two buckets
    source,          \* the rows of the source view, in view order
    target,          \* target bucket: id -> [present, val, cas, xattr]
    preExisting,     \* ids that were in the target before the run
    pageSize,        \* pageSizeViewResult
    numGo,           \* numGoRoutinesConcurrentViewResult
    postCb,          \* postInsertCallback: "nil" or "AddXATTRS"
    preCb,           \* preInsertCallback: "nil" or "Anonymize"
    oob,             \* whether another client writes to the target during the run
    storeFaulty,     \* whether an operation of this run may fail (view query
                     \* error, temporary failure of a write, bulk timeout,
                     \* error of the anonymizer)
    \* the producer: ForEachDocIdBucketViewsConcurrent + ForEachDocIdBucketViews
    ppc,             \* "query", "send", "wait", "returned"
    skip,            \* view query offset
    page,            \* the DocProcessorInput being sent
    retErr,          \* value returned by the pipeline call
    viewResultsChan, \* the buffered channel
    wg,              \* pendingWorkWaitGroup counter
    \* the worker goroutines
    wpc,             \* "recv", "copy", "postGet", "postMutate", "panic", "dead"
    wbatch,          \* viewResults held by the worker
    wouts,           \* per-item outcome of the worker's last write
    werr,            \* error returned by docProcessor to the worker
    wi,              \* loop index of postInsertCallback
    wcas,            \* cas read by postInsertCallback
    crashed,         \* the process was terminated by a goroutine panic
    \* AddNameSpaceToTypeFieldViaSubdoc
    namespacePrefix, \* its argument
    docType,         \* target bucket: id -> the "type" field of the document,
                     \* the sequence of its parts between the ":"
    wtype,           \* currentValueOfTypeField of the worker's callback
    pass,            \* number of the call that is running or has ended
    blocked,         \* worker goroutines of earlier calls of the pipeline,
                     \* each blocked in the receive from its call's channel
    \* history
    numQueries,      \* page queries issued
    numSent,         \* batches put on the channel
    delivered,       \* batches handed to the document processor by the scan
    attempts,        \* id -> number of item write attempts
    postCalled       \* DocIds of the batches postInsertCallback was invoked on

cfgVars  == <<source, preExisting, pageSize, numGo, postCb, preCb, oob,
              storeFaulty>>
prodVars == <<ppc, skip, page, retErr>>
workVars == <<wpc, wbatch, wouts, werr, wi, wcas>>
histVars == <<numQueries, numSent, delivered, attempts, postCalled>>
relabelVars == <<namespacePrefix, docType, wtype, pass, blocked>>
vars == <<cfgVars, target, prodVars, viewResultsChan, wg, workVars,
          crashed, histVars, relabelVars>>

Workers == 1 .. numGo

\* viewResultsChanBufferSize := 5 * numGoRoutinesConcurrentViewResult
viewResultsChanBufferSize_PerPageSize == 5 * pageSize
viewResultsChanBufferSize == 5 * numGo

\* ------------------------------------------------------------------ Init
\* a static source of m well-formed rows
SourceRows(m) == [i \in 1 .. m |-> [id |-> i, value |-> SrcVal(i), shape |-> "ok"]]

InitTarget(pre) ==
    [i \in TargetIds |-> IF i \in pre
                   THEN [present |-> TRUE, val |-> OldVal(i), cas |-> 1, xattr |-> "none"]
                   ELSE Absent]

\* the state of the pipeline when ForEachDocIdBucketViewsConcurrent has
\* started its goroutines and is about to issue the first page query
InitRun ==
    /\ ppc = "query"
    /\ skip = 0
    /\ page = EmptyInput
    /\ retErr = Nil
    /\ viewResultsChan = <<>>
    /\ wg = 0
    /\ wpc = [w \in Workers |-> "recv"]
    /\ wbatch = [w \in Workers |-> EmptyInput]
    /\ wouts = [w \in Workers |-> <<>>]
    /\ werr = [w \in Workers |-> Nil]
    /\ wi = [w \in Workers |-> 0]
    /\ wcas = [w \in Workers |-> 0]
    /\ wtype = [w \in Workers |-> <<>>]
    /\ blocked = 0
    /\ crashed = FALSE
    /\ numQueries = 0
    /\ numSent = 0
    /\ delivered = <<>>
    /\ attempts = [i \in TargetIds |-> 0]
    /\ postCalled = {}

\* a run that does not call AddNameSpaceToTypeFieldViaSubdoc
NoRelabel ==
    /\ namespacePrefix = "none"
    /\ docType = [i \in TargetIds |-> <<>>]
    /\ pass = 0

\* CopyBucket and CopyBucketAddXATTRS (no preInsertCallback) on a target no
\* other client writes to
Init ==
    /\ \E m \in 0 .. MaxDocs : source = SourceRows(m)
    /\ preExisting \in SUBSET (1 .. MaxPre)
    /\ pageSize \in 1 .. MaxPageSize
    /\ numGo \in 1 .. MaxGoRoutines
    /\ postCb \in {"nil", "AddXATTRS"}
    /\ preCb = "nil"
    /\ oob = FALSE
    /\ storeFaulty \in BOOLEAN
    /\ target = InitTarget(preExisting)
    /\ NoRelabel
    /\ InitRun

\* CopyBucketWithCallback with any combination of the two callbacks, over a
\* small source, with the one worker goroutine of the source
\* (numGoRoutinesConcurrentViewResult = 1), on a target another client may
\* write to during the run
InitHooks ==
    /\ \E m \in 0 .. MaxHookDocs : source = SourceRows(m)
    /\ preExisting \in SUBSET (1 .. MaxPre)
    /\ pageSize \in 1 .. MaxPageSize
    /\ numGo = 1
    /\ postCb \in {"nil", "AddXATTRS"}
    /\ preCb \in {"nil", "Anonymize"}
    /\ oob \in BOOLEAN
    /\ storeFaulty \in BOOLEAN
    /\ target = InitTarget(preExisting)
    /\ NoRelabel
    /\ InitRun


\* the forms a row of the view result may have: with a string "id" and a
\* "value", without "id", with an "id" that is not a string, without "value"
Shapes == {"ok", "noId", "idNotString", "noValue"}

\* a view of Len(shapes) rows, row i of the form shapes[i]
ShapedRows(shapes) ==
    [i \in 1 .. Len(shapes) |-> [id |-> i, value |-> SrcVal(i), shape |-> shapes[i]]]

\* CopyBucket and CopyBucketAddXATTRS with one worker into an empty target,
\* over a view whose rows may be of any form
InitRows ==
    /\ \E m \in 0 .. MaxHookDocs : \E shapes \in [1 .. m -> Shapes] :
          source = ShapedRows(shapes)
    /\ preExisting = {}
    /\ pageSize \in 1 .. MaxPageSize
    /\ numGo = 1
    /\ postCb \in {"nil", "AddXATTRS"}
    /\ preCb = "nil"
    /\ oob = FALSE
    /\ storeFaulty = FALSE
    /\ target = InitTarget(preExisting)
    /\ NoRelabel
    /\ InitRun

\* A second run of CopyBucketAddXATTRS (one worker) over the same source,
\* into the target as an interrupted first run left it: the documents of
\* "written" are there with the body of the source, each with or without the
\* extended attribute.
InitRerun ==
    /\ \E m \in 0 .. MaxHookDocs : source = SourceRows(m)
    /\ preExisting \in SUBSET (1 .. Len(source))
    /\ \E attached \in SUBSET preExisting :
          target = [i \in TargetIds |->
                      IF i \in attached
                      THEN [present |-> TRUE, val |-> SrcVal(i), cas |-> 2,
                            xattr |-> SourceName]
                      ELSE IF i \in preExisting
                      THEN [present |-> TRUE, val |-> SrcVal(i), cas |-> 1,
                            xattr |-> "none"]
                      ELSE Absent]
    /\ pageSize \in 1 .. MaxPageSize
    /\ numGo = 1
    /\ postCb = "AddXATTRS"
    /\ preCb = "nil"
    /\ oob = FALSE
    /\ storeFaulty = FALSE
    /\ NoRelabel
    /\ InitRun

\* ------------------------------------------------- ForEachDocIdBucketViews
\* the rows bucket.ExecuteViewQuery returns for viewQuery.Limit(limit),
\* viewQuery.Skip(sk)
ViewPage_NoLimit(rows, limit, sk) == SubSeq(rows, sk + 1, Len(rows))
ViewPage_OneFurther(rows, limit, sk) ==
    SubSeq(rows, sk + 2, Min(sk + 1 + limit, Len(rows)))
ViewPage(rows, limit, sk) == SubSeq(rows, sk + 1, Min(sk + limit, Len(rows)))

\* skip += 1 for each of the n rows of a page
NextSkip_PerPage(sk, n) == sk + 1
NextSkip_LastPage(sk, n) == n
NextSkip(sk, n) == sk + n

\* The inner for loop over one page of rows.  viewResults.Next(&row) decodes
\* each row into the same map, which is created once per page: a key that a
\* row lacks keeps the value an earlier row of the page left in the map.
\* RowLoop folds rows[1..n] and yields the map after row n, the docIds / docs
\* collected so far, and the error of the first row that was rejected.
RECURSIVE RowLoop(_, _)
RowLoop(rows, n) ==
    IF n = 0
    THEN [hasId |-> FALSE, idOk |-> FALSE, id |-> 0, hasValue |-> FALSE, value |-> 0,
          err |-> Nil, input |-> EmptyInput]
    ELSE LET p == RowLoop(rows, n - 1)
             r == rows[n]
             hasId == p.hasId \/ r.shape # "noId"
             idOk == IF r.shape = "noId" THEN p.idOk ELSE r.shape # "idNotString"
             id == IF r.shape = "noId" THEN p.id ELSE r.id
             hasValue == p.hasValue \/ r.shape # "noValue"
             value == IF r.shape = "noValue" THEN p.value ELSE r.value
             e == IF ~hasId THEN Err("RowNoIdField", {})
                  ELSE IF ~idOk THEN Err("RowIdNotString", {})
                  ELSE IF ~hasValue THEN Err("RowNoDocField", {})
                  ELSE Nil
         IN IF p.err # Nil THEN p
            ELSE [hasId |-> hasId, idOk |-> idOk, id |-> id, hasValue |-> hasValue,
                  value |-> value, err |-> e,
                  input |-> IF e # Nil THEN p.input
                            ELSE DocProcessorInput(Append(p.input.DocIds, id),
                                                   Append(p.input.Docs, value))]

\* The outcome of one page: the scan fails on a rejected row, ends (return
\* nil) on a page without rows (numResultsProcessed == 0), and otherwise hands
\* the collected page to docProcessor.
ScanPage_NoEnd(rows) ==
    LET l == RowLoop(rows, Len(rows)) IN
    IF l.err # Nil THEN [kind |-> "err", err |-> l.err, input |-> EmptyInput]
    ELSE [kind |-> "page", err |-> Nil, input |-> l.input]
ScanPage_EndOnShort(rows) ==
    LET l == RowLoop(rows, Len(rows)) IN
    IF l.err # Nil THEN [kind |-> "err", err |-> l.err, input |-> EmptyInput]
    ELSE IF Len(rows) < pageSize THEN [kind |-> "end", err |-> Nil, input |-> EmptyInput]
    ELSE [kind |-> "page", err |-> Nil, input |-> l.input]
ScanPage(rows) ==
    LET l == RowLoop(rows, Len(rows)) IN
    IF l.err # Nil THEN [kind |-> "err", err |-> l.err, input |-> EmptyInput]
    ELSE IF Len(rows) = 0 THEN [kind |-> "end", err |-> Nil, input |-> EmptyInput]
    ELSE [kind |-> "page", err |-> Nil, input |-> l.input]

\* One iteration of the outer for loop up to the point where the page is
\* handed to docProcessor (viewResultsProcessor): the page query, the row
\* loop, and pendingWorkWaitGroup.Add(1).  A failed query or a malformed row
\* returns the error from ForEachDocIdBucketViewsConcurrent at once, without
\* Wait(); an empty page returns nil from the scan, and the caller goes on to
\* Wait().
ExecuteViewQuery ==
    /\ ~crashed
    /\ ppc = "query"
    /\ numQueries' = numQueries + 1
    /\ \/ /\ storeFaulty
          /\ ppc' = "returned"
          /\ retErr' = Err("ViewQuery", {})
          /\ UNCHANGED <<skip, page, wg, delivered>>
       \/ /\ LET r == ScanPage(ViewPage(source, pageSize, skip)) IN
               IF r.kind = "err"
               THEN /\ ppc' = "returned"
                    /\ retErr' = r.err
                    /\ UNCHANGED <<skip, page, wg, delivered>>
               ELSE IF r.kind = "end"
               THEN /\ ppc' = "wait"
                    /\ UNCHANGED <<skip, page, wg, delivered, retErr>>
               ELSE /\ ppc' = "send"
                    /\ skip' = NextSkip(skip, Len(r.input.DocIds))
                    /\ page' = r.input
                    /\ wg' = wg + 1
                    /\ delivered' = Append(delivered, r.input)
                    /\ UNCHANGED retErr
    /\ UNCHANGED <<relabelVars, cfgVars, target, viewResultsChan, workVars, crashed,
                   numSent, attempts, postCalled>>

\* viewResultsChan <- docProcessorInput : blocks while the buffer is full
ChanSend_NoBlock ==
    /\ ~crashed
    /\ ppc = "send"
    /\ viewResultsChan' = Append(viewResultsChan, page)
    /\ numSent' = numSent + 1
    /\ ppc' = "query"
    /\ UNCHANGED <<relabelVars, cfgVars, target, skip, page, retErr, wg, workVars,
                   crashed, numQueries, delivered, attempts, postCalled>>
ChanSend ==
    /\ ~crashed
    /\ ppc = "send"
    /\ Len(viewResultsChan) < viewResultsChanBufferSize
    /\ viewResultsChan' = Append(viewResultsChan, page)
    /\ numSent' = numSent + 1
    /\ ppc' = "query"
    /\ UNCHANGED <<relabelVars, cfgVars, target, skip, page, retErr, wg, workVars,
                   crashed, numQueries, delivered, attempts, postCalled>>

\* pendingWorkWaitGroup.Wait(); return nil
WaitGroupWait_NoWait ==
    /\ ~crashed
    /\ ppc = "wait"
    /\ ppc' = "returned"
    /\ retErr' = Nil
    /\ UNCHANGED <<relabelVars, cfgVars, target, skip, page, viewResultsChan, wg,
                   workVars, crashed, histVars>>
WaitGroupWait ==
    /\ ~crashed
    /\ ppc = "wait"
    /\ wg = 0
    /\ ppc' = "returned"
    /\ retErr' = Nil
    /\ UNCHANGED <<relabelVars, cfgVars, target, skip, page, viewResultsChan, wg,
                   workVars, crashed, histVars>>


\* ------------------------------------------- CopyBucketWithCallback.copyEachDoc
\* One insert operation against the target bucket (Bucket.Insert, or one
\* gocb.InsertOp of a bulk request): it fails with KeyExists when the id is
\* in the bucket and never overwrites; "fail" injects a temporary failure of
\* the store.
InsertOp_Upsert(t, id, doc, fail) ==
    IF fail THEN [t |-> t, out |-> "TempFail"]
    ELSE [t |-> [t EXCEPT ![id] = [present |-> TRUE, val |-> doc,
                                   cas |-> @.cas + 1, xattr |-> "none"]],
          out |-> "ok"]
InsertOp_ExistsOk(t, id, doc, fail) ==
    IF fail THEN [t |-> t, out |-> "TempFail"]
    ELSE IF t[id].present THEN [t |-> t, out |-> "ok"]
    ELSE [t |-> [t EXCEPT ![id] = [present |-> TRUE, val |-> doc,
                                   cas |-> @.cas + 1, xattr |-> "none"]],
          out |-> "ok"]
InsertOp(t, id, doc, fail) ==
    IF fail THEN [t |-> t, out |-> "TempFail"]
    ELSE IF t[id].present THEN [t |-> t, out |-> "KeyExists"]
    ELSE [t |-> [t EXCEPT ![id] = [present |-> TRUE, val |-> doc,
                                   cas |-> @.cas + 1, xattr |-> "none"]],
          out |-> "ok"]

\* e.TargetBucket.Do(items): the first n operations of the request are
\* executed, each with its own outcome (n < Len(ids) only when the request
\* as a whole times out); the operation at index failAt hits a temporary
\* failure.  Yields the bucket and the items' Err fields.
RECURSIVE BulkDo_StopAtFailure(_, _, _, _, _)
BulkDo_StopAtFailure(t, ids, docs, n, failAt) ==
    IF n = 0 THEN [t |-> t, outs |-> <<>>]
    ELSE LET p == BulkDo_StopAtFailure(t, ids, docs, n - 1, failAt)
             r == InsertOp(p.t, ids[n], docs[n], failAt = n)
         IN IF \E k \in 1 .. Len(p.outs) : p.outs[k] # "ok"
            THEN [t |-> p.t, outs |-> Append(p.outs, "cancelled")]
            ELSE [t |-> r.t, outs |-> Append(p.outs, r.out)]
RECURSIVE BulkDo(_, _, _, _, _)
BulkDo(t, ids, docs, n, failAt) ==
    IF n = 0 THEN [t |-> t, outs |-> <<>>]
    ELSE LET p == BulkDo(t, ids, docs, n - 1, failAt)
             r == InsertOp(p.t, ids[n], docs[n], failAt = n)
         IN [t |-> r.t, outs |-> Append(p.outs, r.out)]

\* "Make sure all bulk ops succeeded": the Err of the first item that has one
ItemsErr_Unchecked(ids, outs) == Nil
ItemsErr_FirstItemOnly(ids, outs) ==
    IF Len(outs) > 0 /\ outs[1] # "ok" THEN Err(outs[1], {ids[1]}) ELSE Nil
ItemsErr(ids, outs) ==
    LET bad == {k \in 1 .. Len(outs) : outs[k] # "ok"} IN
    IF bad = {} THEN Nil ELSE Err(outs[SetMin(bad)], {ids[SetMin(bad)]})

\* ------------------------------------ CopyBucketAnonymizeDoc.preInsertCallback
\* jsonAnonymizer.Anonymize(docId) and jsonAnonymizer.Anonymize(doc): the
\* anonymized id is another key of the target, the anonymized body another
\* body
AnonId(id) == id + MaxDocs
AnonVal(v) == v + 300

\* the for loop of preInsertCallback over the first i documents: output
\* position k is assigned from input position k
RECURSIVE PreLoop_Append(_, _, _)
PreLoop_Append(input, output, i) ==
    IF i = 0 THEN output
    ELSE LET p == PreLoop_Append(input, output, i - 1)
         IN DocProcessorInput(Append(p.DocIds, AnonId(input.DocIds[i])),
                              Append(p.Docs, AnonVal(input.Docs[i])))
RECURSIVE PreLoop(_, _, _)
PreLoop(input, output, i) ==
    IF i = 0 THEN output
    ELSE LET p == PreLoop(input, output, i - 1)
         IN DocProcessorInput([p.DocIds EXCEPT ![i] = AnonId(input.DocIds[i])],
                              [p.Docs EXCEPT ![i] = AnonVal(input.Docs[i])])

\* preInsertCallback(input): the output slices are made with the lengths of
\* the input slices (zero values) and filled by the loop; when the
\* anonymizer fails on the document at failAt the output filled so far is
\* returned with the error.
PreInsertCallback(input, failAt) ==
    LET made == DocProcessorInput([k \in 1 .. Len(input.DocIds) |-> 0],
                                  [k \in 1 .. Len(input.Docs) |-> 0])
    IN IF failAt \in 1 .. Len(input.DocIds)
       THEN [output |-> PreLoop(input, made, failAt - 1),
             err |-> Err("Anonymize", {input.DocIds[failAt]})]
       ELSE [output |-> PreLoop(input, made, Len(input.DocIds)), err |-> Nil]

\* the head of copyEachDoc: with a preInsertCallback, docs and docIds are
\* replaced by what it returns, and its error is returned; without one they
\* are what the scan handed over.
ApplyPre_Discard(input, f) ==
    IF preCb = "nil" THEN [input |-> input, err |-> Nil]
    ELSE LET r == PreInsertCallback(input, IF f.kind = "pre" THEN f.at ELSE 0)
         IN [input |-> input, err |-> r.err]
ApplyPre_Always(input, f) ==
    LET r == PreInsertCallback(input, IF f.kind = "pre" THEN f.at ELSE 0)
    IN [input |-> IF r.err = Nil THEN r.output ELSE input, err |-> r.err]
ApplyPre(input, f) ==
    IF preCb = "nil" THEN [input |-> input, err |-> Nil]
    ELSE LET r == PreInsertCallback(input, IF f.kind = "pre" THEN f.at ELSE 0)
         IN [input |-> IF r.err = Nil THEN r.output ELSE input, err |-> r.err]

\* the errors that may be injected into the processing of a batch of n items
FaultChoices(n) ==
    {[kind |-> "none", at |-> 0]}
    \cup (IF storeFaulty /\ preCb # "nil"
          THEN {[kind |-> "pre", at |-> i] : i \in 1 .. n} ELSE {})
    \cup (IF storeFaulty THEN {[kind |-> "item", at |-> i] : i \in 1 .. n} ELSE {})
    \cup (IF storeFaulty /\ n > 1 THEN {[kind |-> "do", at |-> k] : k \in 0 .. n - 1} ELSE {})

\* switch len(docIds): case 1 is the single Insert, default the bulk request
WritePath_AlwaysBulk(ids) == "Do"
WritePath(ids) == IF Len(ids) = 1 THEN "Insert" ELSE "Do"

\* The switch of copyEachDoc: one Insert for a batch of one document, one
\* bulk request otherwise.  Yields the bucket, the per-item outcomes, the
\* error copyEachDoc returns from the write, and the requests sent to the
\* bucket (operation and keys).
WriteItems(t, input, f) ==
    LET ids == input.DocIds
        docs == input.Docs
        failAt == IF f.kind = "item" THEN f.at ELSE 0
    IN IF WritePath(ids) = "Insert"
       THEN LET r == InsertOp(t, ids[1], docs[1], failAt = 1)
            IN [t |-> r.t, outs |-> <<r.out>>,
                err |-> IF r.out = "ok" THEN Nil ELSE Err(r.out, {ids[1]}),
                reqs |-> <<[op |-> "Insert", keys |-> <<ids[1]>>]>>]
       ELSE LET n == IF f.kind = "do" THEN f.at ELSE Len(ids)
                r == BulkDo(t, ids, docs, n, failAt)
                outs == r.outs \o [k \in 1 .. Len(ids) - n |-> "cancelled"]
            IN [t |-> r.t, outs |-> outs,
                err |-> IF f.kind = "do" THEN Err("BulkTimeout", {})
                        ELSE ItemsErr(ids, outs),
                reqs |-> <<[op |-> "Do", keys |-> ids]>>]

\* The write as copyEachDoc leaves it: on an error it returns at once, and
\* what the operations have written stays in the bucket.
WriteBatch_Rollback(t, input, f) ==
    LET r == WriteItems(t, input, f)
    IN IF r.err # Nil THEN [r EXCEPT !.t = t] ELSE r
WriteBatch(t, input, f) == WriteItems(t, input, f)

\* number of write attempts the outcomes outs record for document i
Attempted(ids, outs, i) ==
    Cardinality({k \in 1 .. Len(outs) : outs[k] # "cancelled" /\ ids[k] = i})

\* ----------------------------------- ForEachDocIdBucketViewsConcurrent workers
\* viewResults := <-viewResultsChan : blocks while the channel is empty.
\* The goroutines blocked at the receive are interchangeable (they run the same
\* closure with no state of their own, and goroutineId is only logged): the
\* one with the lowest id stands for whichever of them the runtime hands the
\* batch to.
ChanRecv_Peek(w) ==
    /\ ~crashed
    /\ wpc[w] = "recv"
    /\ viewResultsChan # <<>>
    /\ \A v \in Workers : v < w => wpc[v] # "recv"
    /\ wbatch' = [wbatch EXCEPT ![w] = Head(viewResultsChan)]
    /\ wpc' = [wpc EXCEPT ![w] = "copy"]
    /\ UNCHANGED <<relabelVars, cfgVars, target, prodVars, viewResultsChan, wg, wouts, werr,
                   wi, wcas, crashed, histVars>>
ChanRecv_Lifo(w) ==
    /\ ~crashed
    /\ wpc[w] = "recv"
    /\ viewResultsChan # <<>>
    /\ \A v \in Workers : v < w => wpc[v] # "recv"
    /\ wbatch' = [wbatch EXCEPT ![w] = viewResultsChan[Len(viewResultsChan)]]
    /\ viewResultsChan' = SubSeq(viewResultsChan, 1, Len(viewResultsChan) - 1)
    /\ wpc' = [wpc EXCEPT ![w] = "copy"]
    /\ UNCHANGED <<relabelVars, cfgVars, target, prodVars, wg, wouts, werr, wi, wcas,
                   crashed, histVars>>
ChanRecv(w) ==
    /\ ~crashed
    /\ wpc[w] = "recv"
    /\ viewResultsChan # <<>>
    /\ \A v \in Workers : v < w => wpc[v] # "recv"
    /\ wbatch' = [wbatch EXCEPT ![w] = Head(viewResultsChan)]
    /\ viewResultsChan' = Tail(viewResultsChan)
    /\ wpc' = [wpc EXCEPT ![w] = "copy"]
    /\ UNCHANGED <<relabelVars, cfgVars, target, prodVars, wg, wouts, werr, wi, wcas,
                   crashed, histVars>>

\* The worker's state at the top of its for loop, after
\* pendingWorkWaitGroup.Done(): the locals of the finished iteration are out
\* of scope.
LoopTop_NoDone(w) ==
    /\ wg' = wg
    /\ wpc' = [wpc EXCEPT ![w] = "recv"]
    /\ wbatch' = [wbatch EXCEPT ![w] = EmptyInput]
    /\ wouts' = [wouts EXCEPT ![w] = <<>>]
    /\ wi' = [wi EXCEPT ![w] = 0]
    /\ wcas' = [wcas EXCEPT ![w] = 0]
LoopTop(w) ==
    /\ wg' = wg - 1
    /\ wpc' = [wpc EXCEPT ![w] = "recv"]
    /\ wbatch' = [wbatch EXCEPT ![w] = EmptyInput]
    /\ wouts' = [wouts EXCEPT ![w] = <<>>]
    /\ wi' = [wi EXCEPT ![w] = 0]
    /\ wcas' = [wcas EXCEPT ![w] = 0]

\* docProcessor(viewResults.DocIds, viewResults.Docs) up to the end of the
\* write.  copyEachDoc first lets preInsertCallback, if there is one, replace
\* docIds and docs (wbatch holds the two locals from then on).  It returns
\* the callback's or the write's error to the worker, which is then about to
\* panic; without a postInsertCallback it returns nil and the worker calls
\* Done(); otherwise it goes on to call postInsertCallback(docIds, docs).
CopyEachDoc(w) ==
    /\ ~crashed
    /\ wpc[w] = "copy"
    /\ \E f \in FaultChoices(Len(wbatch[w].DocIds)) :
         LET pre == ApplyPre(wbatch[w], f)
             ids == pre.input.DocIds
             r == WriteBatch(target, pre.input, f)
         IN IF pre.err # Nil
            THEN /\ wpc' = [wpc EXCEPT ![w] = "panic"]
                 /\ werr' = [werr EXCEPT ![w] = pre.err]
                 /\ UNCHANGED <<target, attempts, wg, wbatch, wouts, wi, wcas,
                                postCalled>>
            ELSE
            /\ target' = r.t
            /\ attempts' = [i \in TargetIds |-> attempts[i] + Attempted(ids, r.outs, i)]
            /\ IF r.err # Nil
               THEN /\ wpc' = [wpc EXCEPT ![w] = "panic"]
                    /\ wbatch' = [wbatch EXCEPT ![w] = pre.input]
                    /\ wouts' = [wouts EXCEPT ![w] = r.outs]
                    /\ werr' = [werr EXCEPT ![w] = r.err]
                    /\ UNCHANGED <<wg, wi, wcas, postCalled>>
               ELSE IF postCb = "nil"
               THEN /\ LoopTop(w)
                    /\ UNCHANGED <<werr, postCalled>>
               ELSE IF Len(ids) = 0
               THEN /\ LoopTop(w)
                    /\ postCalled' = postCalled \cup {ids}
                    /\ UNCHANGED werr
               ELSE /\ wpc' = [wpc EXCEPT ![w] = "postGet"]
                    /\ wbatch' = [wbatch EXCEPT ![w] = pre.input]
                    /\ wouts' = [wouts EXCEPT ![w] = r.outs]
                    /\ wi' = [wi EXCEPT ![w] = 1]
                    /\ postCalled' = postCalled \cup {ids}
                    /\ UNCHANGED <<wg, werr, wcas>>
    /\ UNCHANGED <<relabelVars, cfgVars, prodVars, viewResultsChan, crashed,
                   numQueries, numSent, delivered>>

\* name of the extended attribute
xattrKey == "Metadata"

\* UpsertEx(xattrKey, xattrVal, gocb.SubdocFlagXattr) on a document of the
\* bucket: the extended attribute is set, the body is left alone, and the
\* document gets a new cas.  (The xattr field of a document stands for the
\* attribute stored under xattrKey and holds its "UpstreamSource" entry;
\* "DateCopied" is time.Now() and is left out.)
UpsertXattr_IntoBody(t, id, v) ==
    [t EXCEPT ![id].val = @ + 1, ![id].cas = @ + 1]
UpsertXattr(t, id, v) ==
    [t EXCEPT ![id].xattr = v, ![id].cas = @ + 1]

\* gocb.Cas(cas) of MutateInEx: the mutation is applied only to the version
\* of the document that has this cas
CasOk_Unchecked(t, id, cas) == TRUE
CasOk(t, id, cas) == t[id].cas = cas

\* GetXattrs(docId, xattrKey): LookupIn(docId).GetEx(xattrKey,
\* gocb.SubdocFlagXattr).Execute(), then res.Content(xattrKey, &xattrVal)
GetXattrs(t, docId, key) ==
    IF ~t[docId].present
    THEN [xattrVal |-> [UpstreamSource |-> "none"], err |-> Err("KeyNotFound", {docId})]
    ELSE IF key # xattrKey \/ t[docId].xattr = "none"
    THEN [xattrVal |-> [UpstreamSource |-> "none"], err |-> Err("PathNotFound", {docId})]
    ELSE [xattrVal |-> [UpstreamSource |-> t[docId].xattr], err |-> Nil]

\* for _, docId := range docIds: every iteration of the callback's loop
\* starts with the Get of its document
HookNextStep_ReuseCas == "postMutate"
HookNextStep == "postGet"

\* CopyBucketAddXATTRS.postInsertCallback, first half of one loop iteration:
\* cas, err := e.TargetBucket.Get(docId, nil)
PostGet_SkipMissing(w) ==
    /\ ~crashed
    /\ wpc[w] = "postGet"
    /\ LET id == wbatch[w].DocIds[wi[w]] IN
         IF ~target[id].present
         THEN /\ IF wi[w] = Len(wbatch[w].DocIds)
                 THEN LoopTop(w)
                 ELSE /\ wi' = [wi EXCEPT ![w] = @ + 1]
                      /\ UNCHANGED <<wpc, wg, wbatch, wouts, wcas>>
              /\ UNCHANGED werr
         ELSE /\ wcas' = [wcas EXCEPT ![w] = target[id].cas]
              /\ wpc' = [wpc EXCEPT ![w] = "postMutate"]
              /\ UNCHANGED <<werr, wg, wbatch, wouts, wi>>
    /\ UNCHANGED <<relabelVars, cfgVars, target, prodVars, viewResultsChan,
                   crashed, histVars>>
PostGet(w) ==
    /\ ~crashed
    /\ wpc[w] = "postGet"
    /\ LET id == wbatch[w].DocIds[wi[w]] IN
         IF ~target[id].present
         THEN /\ werr' = [werr EXCEPT ![w] = Err("KeyNotFound", {id})]
              /\ wpc' = [wpc EXCEPT ![w] = "panic"]
              /\ UNCHANGED wcas
         ELSE /\ wcas' = [wcas EXCEPT ![w] = target[id].cas]
              /\ wpc' = [wpc EXCEPT ![w] = "postMutate"]
              /\ UNCHANGED werr
    /\ UNCHANGED <<relabelVars, cfgVars, target, prodVars, viewResultsChan, wg, wbatch,
                   wouts, wi, crashed, histVars>>

\* second half: MutateInEx(docId, .., gocb.Cas(cas), ..).UpsertEx(xattrKey,
\* xattrVal, gocb.SubdocFlagXattr).Execute().  After the last document the
\* callback and copyEachDoc return nil and the worker calls Done().
PostMutate(w) ==
    /\ ~crashed
    /\ wpc[w] = "postMutate"
    /\ LET id == wbatch[w].DocIds[wi[w]] IN
         IF ~target[id].present
         THEN /\ werr' = [werr EXCEPT ![w] = Err("KeyNotFound", {id})]
              /\ wpc' = [wpc EXCEPT ![w] = "panic"]
              /\ UNCHANGED <<target, wg, wbatch, wouts, wi, wcas>>
         ELSE IF ~CasOk(target, id, wcas[w])
         THEN /\ werr' = [werr EXCEPT ![w] = Err("CasMismatch", {id})]
              /\ wpc' = [wpc EXCEPT ![w] = "panic"]
              /\ UNCHANGED <<target, wg, wbatch, wouts, wi, wcas>>
         ELSE /\ target' = UpsertXattr(target, id, SourceName)
              /\ UNCHANGED werr
              /\ IF wi[w] = Len(wbatch[w].DocIds)
                 THEN LoopTop(w)
                 ELSE /\ wi' = [wi EXCEPT ![w] = @ + 1]
                      /\ wpc' = [wpc EXCEPT ![w] = HookNextStep]
                      /\ UNCHANGED <<wg, wbatch, wouts, wcas>>
    /\ UNCHANGED <<relabelVars, cfgVars, prodVars, viewResultsChan, crashed, histVars>>

\* panic(fmt.Sprintf("Goroutine error calling docProcessor: %v", err)): the
\* panic of a goroutine is not recovered and terminates the process.  The
\* other goroutines keep running between the return of docProcessor and the
\* termination.
Panic_Retry(w) ==
    /\ ~crashed
    /\ wpc[w] = "panic"
    /\ IF wouts[w] # <<>> /\ attempts[wbatch[w].DocIds[1]] < 2
       THEN /\ wpc' = [wpc EXCEPT ![w] = "copy"]
            /\ UNCHANGED crashed
       ELSE /\ wpc' = [wpc EXCEPT ![w] = "dead"]
            /\ crashed' = TRUE
    /\ UNCHANGED <<relabelVars, cfgVars, target, prodVars, viewResultsChan, wg,
                   wbatch, wouts, werr, wi, wcas, histVars>>
Panic(w) ==
    /\ ~crashed
    /\ wpc[w] = "panic"
    /\ crashed' = TRUE
    /\ wpc' = [wpc EXCEPT ![w] = "dead"]
    /\ UNCHANGED <<relabelVars, cfgVars, target, prodVars, viewResultsChan, wg, wbatch,
                   wouts, werr, wi, wcas, histVars>>

\* ------------------------------------------------- ForEachDocIdBucketN1ql
\* postInsertCallback(docIds, docs) run to its end with no other client at
\* the bucket: for each of the first n documents the Get and the mutation
\* guarded by the cas just read
RECURSIVE AttachAll(_, _, _)
AttachAll(t, ids, n) ==
    IF n = 0 THEN t
    ELSE LET p == AttachAll(t, ids, n - 1)
         IN IF CasOk(p, ids[n], p[ids[n]].cas)
            THEN UpsertXattr(p, ids[n], SourceName)
            ELSE p

\* copyEachDoc(docIds, docs) called synchronously, as the N1QL loop calls
\* it: yields the bucket it leaves and the error it returns
CopyEachDocSync(t, input, f) ==
    LET pre == ApplyPre(input, f)
        w == WriteBatch(t, pre.input, f)
    IN IF pre.err # Nil THEN [t |-> t, err |-> pre.err]
       ELSE IF w.err # Nil THEN [t |-> w.t, err |-> w.err]
       ELSE IF postCb = "nil" THEN [t |-> w.t, err |-> Nil]
       ELSE [t |-> AttachAll(w.t, pre.input.DocIds, Len(pre.input.DocIds)),
             err |-> Nil]

\* the store errors that may be injected into a run of the N1QL strategy:
\* the query fails, or the insert of row at fails
N1qlFaults ==
    {[kind |-> "none", at |-> 0]}
    \cup (IF storeFaulty
          THEN {[kind |-> "query", at |-> 0]}
               \cup {[kind |-> "item", at |-> i] : i \in 1 .. Len(source)}
          ELSE {})

\* The for rows.Next(&row) loop over the first n rows.  The row map is
\* created once, before the loop, so the rows are decoded as the rows of one
\* page are; every accepted row is passed to docProcessor as a batch of one,
\* and the first error, of a row check or of docProcessor, is returned.
RECURSIVE N1qlLoop(_, _, _, _)
N1qlLoop(rows, n, t, f) ==
    IF n = 0 THEN [t |-> t, err |-> Nil]
    ELSE LET p == N1qlLoop(rows, n - 1, t, f)
             l == RowLoop(rows, n)
         IN IF p.err # Nil THEN p
            ELSE IF l.err # Nil THEN [t |-> p.t, err |-> l.err]
            ELSE CopyEachDocSync(p.t,
                     DocProcessorInput(<<l.input.DocIds[n]>>, <<l.input.Docs[n]>>),
                     IF f.kind = "item" /\ f.at = n
                     THEN [kind |-> "item", at |-> 1]
                     ELSE [kind |-> "none", at |-> 0])

\* ForEachDocIdBucketN1ql(copyEachDoc, e.SourceBucket): the error of the
\* query is returned before any row is read
N1qlRun(rows, t, f) ==
    IF f.kind = "query" THEN [t |-> t, err |-> Err("N1qlQuery", {})]
    ELSE N1qlLoop(rows, Len(rows), t, f)

\* ------------------------------------------------------- another client
\* body another client gives document id
OobVal(id) == 900 + id

\* A client that is not part of the program replaces the body of a document
\* of the target bucket (once per document): the document gets a new cas.
OobMutate(id) ==
    /\ oob
    /\ ~crashed
    /\ target[id].present
    /\ target[id].val # OobVal(id)
    /\ target' = [target EXCEPT ![id].val = OobVal(id), ![id].cas = @ + 1]
    /\ UNCHANGED <<relabelVars, cfgVars, prodVars, viewResultsChan, wg, workVars, crashed,
                   histVars>>

\* A client that is not part of the program deletes a document of the
\* target bucket.
OobDelete(id) ==
    /\ oob
    /\ ~crashed
    /\ target[id].present
    /\ target' = [target EXCEPT ![id] = Absent]
    /\ UNCHANGED <<relabelVars, cfgVars, prodVars, viewResultsChan, wg,
                   workVars, crashed, histVars>>

\* ---------------------------------------- AddNameSpaceToTypeFieldViaSubdoc
\* the namespaces the call may be given
Namespaces == {"foo-component", "app"}

\* the "type" field of document i before the first call: one part, which for
\* the even ids is a word that is also a namespace
OrigType(i) == IF i % 2 = 1 THEN <<"airline">> ELSE <<"app">>

\* fmt.Sprintf("%v:%v", namespacePrefix, currentValueOfTypeField)
NewValueOfTypeField_OnlyOnce(prefix, current) ==
    IF current # <<>> /\ current[1] = prefix THEN current
    ELSE <<prefix>> \o current
NewValueOfTypeField(prefix, current) == <<prefix>> \o current

\* The first call of AddNameSpaceToTypeFieldViaSubdoc, on a target that holds
\* a copy of the source.  ForEachDocIdTargetBucket scans the view of the
\* target bucket, whose rows carry the ids of the documents of the target:
\* source stands for these rows.
InitRelabel ==
    /\ \E m \in 0 .. MaxHookDocs : source = SourceRows(m)
    /\ preExisting = 1 .. Len(source)
    /\ target = [i \in TargetIds |->
                   IF i \in preExisting
                   THEN [present |-> TRUE, val |-> SrcVal(i), cas |-> 1,
                         xattr |-> "none"]
                   ELSE Absent]
    /\ pageSize \in 1 .. MaxPageSize
    /\ numGo \in 1 .. MaxGoRoutines
    /\ postCb = "nil"
    /\ preCb = "nil"
    /\ oob = FALSE
    /\ storeFaulty \in BOOLEAN
    /\ namespacePrefix \in Namespaces
    /\ docType = [i \in TargetIds |-> IF i \in preExisting THEN OrigType(i) ELSE <<>>]
    /\ pass = 1
    /\ InitRun

\* docProcessor(viewResults.DocIds, viewResults.Docs) where the processor is
\* appendNamespaceToTypeField: entry into its for loop over docIds
AppendNamespaceToTypeField(w) ==
    /\ ~crashed
    /\ wpc[w] = "copy"
    /\ IF Len(wbatch[w].DocIds) = 0
       THEN LoopTop(w)
       ELSE /\ wi' = [wi EXCEPT ![w] = 1]
            /\ wpc' = [wpc EXCEPT ![w] = "typeGet"]
            /\ UNCHANGED <<wg, wbatch, wouts, wcas>>
    /\ UNCHANGED <<cfgVars, target, prodVars, viewResultsChan, werr, crashed,
                   histVars, relabelVars>>

\* currentValueOfTypeField, err := e.GetSubdocField(docId, "type"); an error
\* is returned by the callback to the worker
GetSubdocField_Cached(w) ==
    /\ ~crashed
    /\ wpc[w] = "typeGet"
    /\ wtype' = [wtype EXCEPT ![w] = docType[wbatch[w].DocIds[1]]]
    /\ wpc' = [wpc EXCEPT ![w] = "typeSet"]
    /\ UNCHANGED <<cfgVars, target, prodVars, viewResultsChan, wg, wbatch,
                   wouts, werr, wi, wcas, crashed, histVars, namespacePrefix, blocked,
                   docType, pass>>
GetSubdocField(w) ==
    /\ ~crashed
    /\ wpc[w] = "typeGet"
    /\ LET id == wbatch[w].DocIds[wi[w]] IN
         \/ /\ storeFaulty
            /\ werr' = [werr EXCEPT ![w] = Err("TempFail", {id})]
            /\ wpc' = [wpc EXCEPT ![w] = "panic"]
            /\ UNCHANGED wtype
         \/ IF ~target[id].present
            THEN /\ werr' = [werr EXCEPT ![w] = Err("KeyNotFound", {id})]
                 /\ wpc' = [wpc EXCEPT ![w] = "panic"]
                 /\ UNCHANGED wtype
            ELSE /\ wtype' = [wtype EXCEPT ![w] = docType[id]]
                 /\ wpc' = [wpc EXCEPT ![w] = "typeSet"]
                 /\ UNCHANGED werr
    /\ UNCHANGED <<cfgVars, target, prodVars, viewResultsChan, wg, wbatch,
                   wouts, wi, wcas, crashed, histVars, namespacePrefix, blocked,
                   docType, pass>>

\* e.SetSubdocField(docId, "type", newValueOfTypeField): MutateInEx with cas
\* 0, so the field is replaced whatever the document's cas is.  After the
\* last document the callback returns nil and the worker calls Done().
SetSubdocField(w) ==
    /\ ~crashed
    /\ wpc[w] = "typeSet"
    /\ LET id == wbatch[w].DocIds[wi[w]] IN
         \/ /\ storeFaulty
            /\ werr' = [werr EXCEPT ![w] = Err("TempFail", {id})]
            /\ wpc' = [wpc EXCEPT ![w] = "panic"]
            /\ UNCHANGED <<target, docType, wtype, wg, wbatch, wouts, wi, wcas>>
         \/ IF ~target[id].present
            THEN /\ werr' = [werr EXCEPT ![w] = Err("KeyNotFound", {id})]
                 /\ wpc' = [wpc EXCEPT ![w] = "panic"]
                 /\ UNCHANGED <<target, docType, wtype, wg, wbatch, wouts, wi, wcas>>
            ELSE /\ docType' = [docType EXCEPT ![id] =
                                  NewValueOfTypeField(namespacePrefix, wtype[w])]
                 /\ target' = [target EXCEPT ![id].cas = @ + 1]
                 /\ wtype' = [wtype EXCEPT ![w] = <<>>]
                 /\ UNCHANGED werr
                 /\ IF wi[w] = Len(wbatch[w].DocIds)
                    THEN LoopTop(w)
                    ELSE /\ wi' = [wi EXCEPT ![w] = @ + 1]
                         /\ wpc' = [wpc EXCEPT ![w] = "typeGet"]
                         /\ UNCHANGED <<wg, wbatch, wouts, wcas>>
    /\ UNCHANGED <<cfgVars, prodVars, viewResultsChan, crashed, histVars,
                   namespacePrefix, pass, blocked>>

\* AddNameSpaceToTypeFieldViaSubdoc is called again, with the same prefix,
\* after a call that returned nil: ForEachDocIdBucketViewsConcurrent makes a
\* new channel and starts new worker goroutines.  The goroutines of the call
\* before are still in their for loop, in the receive from the channel of
\* that call, which nothing sends to or closes.
StartPass_Reuse ==
    /\ ~crashed
    /\ ppc = "returned"
    /\ retErr = Nil
    /\ pass < MaxPasses
    /\ pass' = pass + 1
    /\ blocked' = blocked
    /\ ppc' = "query"
    /\ skip' = 0
    /\ page' = EmptyInput
    /\ viewResultsChan' = <<>>
    /\ wpc' = [w \in Workers |-> "recv"]
    /\ numQueries' = 0
    /\ numSent' = 0
    /\ delivered' = <<>>
    /\ UNCHANGED <<cfgVars, target, retErr, wg, wbatch, wouts, werr, wi, wcas,
                   crashed, attempts, postCalled, namespacePrefix, docType,
                   wtype>>
StartPass ==
    /\ ~crashed
    /\ ppc = "returned"
    /\ retErr = Nil
    /\ pass < MaxPasses
    /\ pass' = pass + 1
    /\ blocked' = blocked + Cardinality({w \in Workers : wpc[w] \notin {"dead"}})
    /\ ppc' = "query"
    /\ skip' = 0
    /\ page' = EmptyInput
    /\ viewResultsChan' = <<>>
    /\ wpc' = [w \in Workers |-> "recv"]
    /\ numQueries' = 0
    /\ numSent' = 0
    /\ delivered' = <<>>
    /\ UNCHANGED <<cfgVars, target, retErr, wg, wbatch, wouts, werr, wi, wcas,
                   crashed, attempts, postCalled, namespacePrefix, docType,
                   wtype>>

\* the "type" field another client writes
OobType == <<"hotel">>

\* A client that is not part of the program replaces the "type" field of a
\* document of the target bucket: the document gets a new cas.
OobSetType(id) ==
    /\ oob
    /\ ~crashed
    /\ target[id].present
    /\ docType[id] # OobType
    /\ docType' = [docType EXCEPT ![id] = OobType]
    /\ target' = [target EXCEPT ![id].cas = @ + 1]
    /\ UNCHANGED <<cfgVars, prodVars, viewResultsChan, wg, workVars, crashed,
                   histVars, namespacePrefix, blocked, wtype, pass>>

\* AddNameSpaceToTypeFieldViaSubdoc with one worker on a target whose type
\* fields another client writes during the call
InitRelabelOob ==
    /\ \E m \in 0 .. MaxHookDocs : source = SourceRows(m)
    /\ preExisting = 1 .. Len(source)
    /\ target = [i \in TargetIds |->
                   IF i \in preExisting
                   THEN [present |-> TRUE, val |-> SrcVal(i), cas |-> 1,
                         xattr |-> "none"]
                   ELSE Absent]
    /\ pageSize \in 1 .. MaxPageSize
    /\ numGo = 1
    /\ postCb = "nil"
    /\ preCb = "nil"
    /\ oob = TRUE
    /\ storeFaulty \in BOOLEAN
    /\ namespacePrefix \in Namespaces
    /\ docType = [i \in TargetIds |-> IF i \in preExisting THEN OrigType(i) ELSE <<>>]
    /\ pass = 1
    /\ InitRun

NextRelabel ==
    \/ ExecuteViewQuery
    \/ ChanSend
    \/ WaitGroupWait
    \/ \E w \in Workers : ChanRecv(w)
    \/ \E w \in Workers : AppendNamespaceToTypeField(w)
    \/ \E w \in Workers : GetSubdocField(w)
    \/ \E w \in Workers : SetSubdocField(w)
    \/ \E w \in Workers : Panic(w)
    \/ StartPass

SpecRelabel == InitRelabel /\ [][NextRelabel]_vars

\* one call, next to the other client
NextRelabelOob ==
    \/ ExecuteViewQuery
    \/ ChanSend
    \/ WaitGroupWait
    \/ \E w \in Workers : ChanRecv(w)
    \/ \E w \in Workers : AppendNamespaceToTypeField(w)
    \/ \E w \in Workers : GetSubdocField(w)
    \/ \E w \in Workers : SetSubdocField(w)
    \/ \E w \in Workers : Panic(w)
    \/ \E id \in TargetIds : OobSetType(id)

SpecRelabelOob == InitRelabelOob /\ [][NextRelabelOob]_vars

\* ------------------------------------------------------------ specification
Next ==
    \/ ExecuteViewQuery
    \/ ChanSend
    \/ WaitGroupWait
    \/ \E w \in Workers : ChanRecv(w)
    \/ \E w \in Workers : CopyEachDoc(w)
    \/ \E w \in Workers : PostGet(w)
    \/ \E w \in Workers : PostMutate(w)
    \/ \E w \in Workers : Panic(w)

Spec == Init /\ [][Next]_vars

\* CopyBucket into an empty target, with a store that returns no errors
InitLive ==
    /\ \E m \in 0 .. MaxDocs : source = SourceRows(m)
    /\ preExisting = {}
    /\ pageSize \in 1 .. MaxPageSize
    /\ numGo \in 1 .. MaxGoRoutines
    /\ postCb = "nil"
    /\ preCb = "nil"
    /\ oob = FALSE
    /\ storeFaulty = FALSE
    /\ target = InitTarget(preExisting)
    /\ NoRelabel
    /\ InitRun

\* the steps of such a run: no docProcessor call returns an error
NextLive ==
    \/ ExecuteViewQuery
    \/ ChanSend
    \/ WaitGroupWait
    \/ \E w \in Workers : ChanRecv(w)
    \/ \E w \in Workers : CopyEachDoc(w)

\* The Go scheduler runs a goroutine that is not blocked: while some
\* goroutine of the run can take a step, a step is taken.  Fair scheduling
\* of each goroutine implies this.
Fairness == WF_vars(NextLive)

SpecLive == InitLive /\ [][NextLive]_vars /\ Fairness

\* the pipeline with either callback, next to another client of the target
NextHooks ==
    \/ Next
    \/ \E id \in TargetIds : OobMutate(id)

SpecHooks == InitHooks /\ [][NextHooks]_vars

\* the pipeline next to a client that deletes documents of the target
NextDelete ==
    \/ Next
    \/ \E id \in TargetIds : OobDelete(id)

SpecDelete == InitHooks /\ [][NextDelete]_vars

\* ids of a source another client changes during the scan: the document
\* that client deletes is the first of the view, the one it inserts sorts
\* before every other
FirstId == 2
LateId == 1

\* a view of m rows with the ids FirstId, FirstId + 1, ...
DriftRows(m) ==
    [i \in 1 .. m |-> [id |-> i + 1, value |-> SrcVal(i + 1), shape |-> "ok"]]

\* the source bucket gets a document whose row sorts before the view query's
\* offset
SrcInsert ==
    /\ oob
    /\ ~crashed
    /\ IF source = <<>> THEN TRUE ELSE source[1].id # LateId
    /\ source' = <<[id |-> LateId, value |-> SrcVal(LateId), shape |-> "ok"]>> \o source
    /\ UNCHANGED <<preExisting, pageSize, numGo, postCb, preCb, oob, storeFaulty,
                   target, prodVars, viewResultsChan, wg, workVars, crashed,
                   histVars, relabelVars>>

\* the source bucket loses its document FirstId
SrcDelete ==
    /\ oob
    /\ ~crashed
    /\ \E k \in 1 .. Len(source) :
          /\ source[k].id = FirstId
          /\ source' = SubSeq(source, 1, k - 1) \o SubSeq(source, k + 1, Len(source))
    /\ UNCHANGED <<preExisting, pageSize, numGo, postCb, preCb, oob, storeFaulty,
                   target, prodVars, viewResultsChan, wg, workVars, crashed,
                   histVars, relabelVars>>

\* CopyBucket and CopyBucketAddXATTRS with one worker into an empty target,
\* over a source another client changes between the page queries
InitDrift ==
    /\ \E m \in 1 .. MaxHookDocs : source = DriftRows(m)
    /\ preExisting = {}
    /\ pageSize \in 1 .. MaxPageSize
    /\ numGo = 1
    /\ postCb \in {"nil", "AddXATTRS"}
    /\ preCb = "nil"
    /\ oob = TRUE
    /\ storeFaulty = FALSE
    /\ target = InitTarget(preExisting)
    /\ NoRelabel
    /\ InitRun

NextDrift ==
    \/ Next
    \/ SrcInsert
    \/ SrcDelete

SpecDrift == InitDrift /\ [][NextDrift]_vars

\* ------------------------- ForEachDocIdBucketViews, per-document version
\* One iteration of the outer for loop of the earlier version of the scan,
\* whose docProcessor takes one document and is called for every row, in the
\* scanning goroutine: the page query; then for each row the checks, the
\* call of copyEachDoc (Insert, then postInsertCallback) and skip += 1.  An
\* error of the query, of a row or of copyEachDoc is returned.  When the rows
\* are used up, also when there were none, the inner loop is left with
\* break and the outer loop goes on to the next page query; no statement of
\* the loop returns nil.
PerDocViewQuery ==
    /\ ~crashed
    /\ ppc = "query"
    /\ numQueries < MaxQueries
    /\ numQueries' = numQueries + 1
    /\ \/ /\ storeFaulty
          /\ ppc' = "returned"
          /\ retErr' = Err("ViewQuery", {})
          /\ UNCHANGED <<target, skip>>
       \/ LET rows == ViewPage(source, pageSize, skip) IN
          \E f \in {[kind |-> "none", at |-> 0]}
                    \cup (IF storeFaulty
                          THEN {[kind |-> "item", at |-> k] : k \in 1 .. Len(rows)}
                          ELSE {}) :
             LET r == N1qlLoop(rows, Len(rows), target, f) IN
             /\ target' = r.t
             /\ IF r.err # Nil
                THEN /\ ppc' = "returned"
                     /\ retErr' = r.err
                     /\ UNCHANGED skip
                ELSE /\ skip' = skip + Len(rows)
                     /\ UNCHANGED <<ppc, retErr>>
    /\ UNCHANGED <<cfgVars, page, viewResultsChan, wg, workVars, crashed,
                   numSent, delivered, attempts, postCalled, relabelVars>>

\* CopyBucket and CopyBucketAddXATTRS of the per-document version
InitPerDoc ==
    /\ \E m \in 0 .. MaxHookDocs : source = SourceRows(m)
    /\ preExisting \in SUBSET (1 .. MaxPre)
    /\ pageSize \in 1 .. MaxPageSize
    /\ numGo = 1
    /\ postCb \in {"nil", "AddXATTRS"}
    /\ preCb = "nil"
    /\ oob = FALSE
    /\ storeFaulty \in BOOLEAN
    /\ target = InitTarget(preExisting)
    /\ NoRelabel
    /\ InitRun

NextPerDoc == PerDocViewQuery

SpecPerDoc == InitPerDoc /\ [][NextPerDoc]_vars

\* the second run of CopyBucketAddXATTRS
SpecRerun == InitRerun /\ [][Next]_vars

\* the pipeline over a view with rows of any form
SpecRows == InitRows /\ [][Next]_vars

TypeOK ==
    /\ ppc \in {"query", "send", "wait", "returned"}
    /\ \A w \in Workers : wpc[w] \in {"recv", "copy", "postGet", "postMutate", "panic", "dead"}
    /\ wg \in Nat


\* ------------------------------------------------------------------ claims
ReturnedOK == ppc = "returned" /\ retErr = Nil
RunEnded == crashed \/ ppc = "returned"

\* number of pages of a source of m rows scanned with page size p
NumPages(m, p) == (m + p - 1) \div p

\* the k-th page of the static source: rows (k-1)P+1 .. min(kP, M)
ExpectedPage(k) ==
    LET lo == (k - 1) * pageSize
        n == Min(k * pageSize, Len(source)) - lo
    IN DocProcessorInput([j \in 1 .. n |-> source[lo + j].id],
                         [j \in 1 .. n |-> source[lo + j].value])

\* the run met no store error and no id collision in the target
CleanRun == preExisting = {} /\ ~storeFaulty

\* C1 - Completeness.  The batches the view scan hands on are the consecutive
\* pages of the source, of sizes P, ..., P and a last one of M mod P when M is
\* not a multiple of P; no document gets more than one write attempt; a run
\* that returns success has delivered every page and made exactly one write
\* attempt for each of the M source documents; and a run without store errors
\* and collisions ends in no other way than by returning success.
C1_Completeness ==
    /\ Len(delivered) <= NumPages(Len(source), pageSize)
    /\ \A k \in 1 .. Len(delivered) :
         /\ delivered[k] = ExpectedPage(k)
         /\ Len(delivered[k].DocIds) =
              IF k * pageSize <= Len(source) THEN pageSize ELSE Len(source) % pageSize
    /\ \A i \in Ids : attempts[i] <= 1
    /\ ReturnedOK =>
         /\ Len(delivered) = NumPages(Len(source), pageSize)
         /\ \A i \in Ids : attempts[i] = IF i <= Len(source) THEN 1 ELSE 0
    /\ (CleanRun /\ RunEnded) => ReturnedOK

\* a successful run over 5 documents with page size 2: pages of 2, 2 and 1
C1_Witness ==
    /\ ReturnedOK
    /\ Len(source) = 5
    /\ pageSize = 2
    /\ Len(delivered) = 3
    /\ Len(delivered[3].DocIds) = 1
    /\ \A i \in 1 .. 5 : attempts[i] = 1

\* C2 - Pagination termination.  A view scan of an empty collection issues
\* one page query and no more, never hands a batch to the document processor
\* and never writes; unless that one query itself fails, the run returns nil.
C2_EmptyScanTerminates ==
    Len(source) = 0 =>
        /\ numQueries <= 1
        /\ delivered = <<>>
        /\ numSent = 0
        /\ \A i \in Ids : attempts[i] = 0
        /\ ~crashed
        /\ numQueries = 1 => ppc = "returned" \/ (ppc = "wait" /\ wg = 0)
        /\ ppc = "returned" => numQueries = 1
        /\ ppc = "returned" => retErr \in {Nil, Err("ViewQuery", {})}
        /\ (ppc = "returned" /\ ~storeFaulty) => retErr = Nil

C2_Witness ==
    /\ Len(source) = 0
    /\ ReturnedOK
    /\ numQueries = 1
    /\ delivered = <<>>

\* C3 - No-clobber.  Every document that was in the target before the run is
\* still there with its original body, and a write attempt on its id never
\* has the outcome "ok", on the single-item and on the bulk path.
C3_NoClobber ==
    /\ \A i \in preExisting : target[i].present /\ target[i].val = OldVal(i)
    /\ \A w \in Workers : \A k \in 1 .. Len(wouts[w]) :
         wbatch[w].DocIds[k] \in preExisting => wouts[w][k] # "ok"

\* a single-item insert of a pre-existing id came back with KeyExists
C3_Witness ==
    \E w \in Workers :
        /\ wouts[w] = <<"KeyExists">>
        /\ wbatch[w].DocIds[1] \in preExisting
        /\ werr[w].kind = "KeyExists"

\* C4 - Bulk partial success.  After a bulk write, without store errors, of a
\* batch of which exactly one id was in the target, copyEachDoc has returned
\* that item's KeyExists error and every other item of the batch is in the
\* target with the body of the batch.
C4_BulkPartialSuccess ==
    \A w \in Workers :
        LET ids == wbatch[w].DocIds
            hit == {k \in 1 .. Len(ids) : ids[k] \in preExisting}
            storeErr == werr[w].kind = "BulkTimeout"
                        \/ \E k \in 1 .. Len(wouts[w]) : wouts[w][k] = "TempFail"
        IN (Len(wouts[w]) > 1 /\ ~storeErr /\ Cardinality(hit) = 1) =>
              /\ werr[w] = Err("KeyExists", {ids[k] : k \in hit})
              /\ \A j \in (1 .. Len(ids)) \ hit :
                    /\ target[ids[j]].present
                    /\ target[ids[j]].val = wbatch[w].Docs[j]

\* the bulk write of <<1, 2>> into a target that held 1: 2 was written
C4_Witness ==
    \E w \in Workers :
        /\ wouts[w] = <<"KeyExists", "ok">>
        /\ preExisting = {1}
        /\ target[2].present
        /\ werr[w].kind = "KeyExists"

\* C5 - Aggregate bulk error.  The error returned from a bulk write in which
\* items failed stems from every failed item of the batch.  (Stated for the
\* runs in which the store itself never fails, where an item fails only
\* because its id is in the target.)
C5_AggregateBulkError ==
    ~storeFaulty =>
        \A w \in Workers :
            LET ids == wbatch[w].DocIds
                failed == {k \in 1 .. Len(wouts[w]) : wouts[w][k] # "ok"}
            IN Len(wouts[w]) > 1 => werr[w].of = {ids[k] : k \in failed}

\* C6 - No false success.  When the bulk call failed or any item of the
\* worker's last write has an error, copyEachDoc returned an error and
\* postInsertCallback was not invoked on that batch.
C6_NoFalseSuccess ==
    \A w \in Workers :
        (\E k \in 1 .. Len(wouts[w]) : wouts[w][k] # "ok") =>
            /\ werr[w] # Nil
            /\ wpc[w] \in {"panic", "dead"}
            /\ wbatch[w].DocIds \notin postCalled

\* with a post-insert callback configured, the second item of a bulk write
\* failed after the first was written
C6_Witness ==
    /\ postCb = "AddXATTRS"
    /\ \E w \in Workers :
          /\ Len(wouts[w]) = 2
          /\ wouts[w][1] = "ok"
          /\ wouts[w][2] # "ok"
          /\ werr[w] # Nil

\* C7 - Error propagation.  A run in which a worker's document processor
\* returned an error ends by returning that error to the caller.  (Stated
\* for the runs in which the store itself never fails, where the error is
\* the KeyExists of an insert.)
C7_ErrorPropagation ==
    (~storeFaulty /\ (\E w \in Workers : werr[w] # Nil) /\ RunEnded) =>
        /\ ppc = "returned"
        /\ \E w \in Workers : werr[w] # Nil /\ retErr = werr[w]

\* C8 - No new work after a fatal error.  Once a worker's document processor
\* has returned an error, no step issues a page query or puts a batch on the
\* channel.  (Stated for the runs in which the store itself never fails.)
C8_NoWorkAfterFatal ==
    [][(~storeFaulty /\ \E w \in Workers : werr[w] # Nil) =>
          (numQueries' = numQueries /\ numSent' = numSent)]_vars

\* C9 - Success means drained.  When the pipeline call has returned nil the
\* scan has passed the end of the source, every delivered batch was sent, the
\* channel is empty, every worker is back at the receive, and every source
\* document has had its write attempt.
C9_SuccessMeansDrained ==
    ReturnedOK =>
        /\ skip = Len(source)
        /\ numSent = Len(delivered)
        /\ viewResultsChan = <<>>
        /\ wg = 0
        /\ \A w \in Workers : wpc[w] = "recv"
        /\ \A i \in 1 .. Len(source) : attempts[i] >= 1

\* a successful run of two workers over at least three batches
C9_Witness ==
    /\ ReturnedOK
    /\ numGo = 2
    /\ numSent >= 3
    /\ \A i \in 1 .. Len(source) : target[i].present

\* C10 - Backpressure.  The channel never holds more batches than its
\* capacity; while it is full the producer stays at its send until a worker
\* has received; while it is empty a worker stays at its receive.
C10_Backpressure ==
    /\ [](Len(viewResultsChan) <= viewResultsChanBufferSize)
    /\ [][(ppc = "send" /\ Len(viewResultsChan) = viewResultsChanBufferSize) =>
             (ppc' = "send" /\ numSent' = numSent)]_vars
    /\ [][\A w \in Workers :
             (wpc[w] = "recv" /\ viewResultsChan = <<>>) => wpc'[w] = "recv"]_vars

\* the producer holds a batch while the channel is full
C10_Witness ==
    /\ ppc = "send"
    /\ Len(viewResultsChan) = viewResultsChanBufferSize
    /\ ~crashed

\* number of documents in the batches on the channel
QueuedDocs ==
    Cardinality(UNION {{<<k, j>> : j \in 1 .. Len(viewResultsChan[k].DocIds)} :
                          k \in 1 .. Len(viewResultsChan)})

NumReceived == numSent - Len(viewResultsChan)
NumCompleted == Len(delivered) - wg

\* the workers that are processing a batch, or have stopped on one
Holding == {w \in Workers : wpc[w] # "recv"}

\* C12 - Exactly one worker per batch.  Every batch that left the channel is
\* either completed or held, whole, by one worker: the number of batches
\* received equals the number completed plus the number of workers holding
\* one, the batch a worker holds is one of the batches the scan delivered,
\* two workers never hold the same batch, no document gets a second write
\* attempt, and when the run has returned nil every batch is completed.
C12_ExactlyOneWorker ==
    /\ NumReceived = NumCompleted + Cardinality(Holding)
    /\ \A w \in Holding : \E k \in 1 .. NumReceived : wbatch[w] = delivered[k]
    /\ \A v, w \in Holding : v # w => wbatch[v] # wbatch[w]
    /\ \A i \in TargetIds : attempts[i] <= 1
    /\ ReturnedOK => (Holding = {} /\ NumCompleted = Len(delivered)
                         /\ NumReceived = Len(delivered))

\* two workers hold two different batches while one batch is completed and
\* another is queued
C12_Witness ==
    /\ numGo = 2
    /\ Holding = {1, 2}
    /\ wbatch[1] # wbatch[2]
    /\ NumCompleted >= 1
    /\ viewResultsChan # <<>>

\* C13 - Order.  The channel holds, in the order they were sent, exactly the
\* batches sent and not yet received, so the batch a receive takes is the
\* oldest one; with one worker the batch in processing is the latest one
\* received, every earlier batch is completed, and the documents get their
\* write attempts in the order of the scan.
C13_FifoOrder ==
    /\ viewResultsChan = SubSeq(delivered, NumReceived + 1, numSent)
    /\ numGo = 1 =>
          /\ \A w \in Holding : wbatch[w] = delivered[NumReceived]
                                 /\ NumCompleted = NumReceived - 1
          /\ \A i, j \in Ids : (i < j /\ attempts[j] > 0) => attempts[i] > 0

\* with two workers, two batches are in processing at the same time, and the
\* later one is written before the earlier one
C13_Witness ==
    /\ numGo = 2
    /\ pageSize = 1
    /\ wpc[1] = "copy" /\ wbatch[1] = delivered[1]
    /\ wpc[2] = "postGet" /\ wbatch[2] = delivered[2]
    /\ attempts[1] = 0 /\ attempts[2] = 1

\* what the anonymizing callback makes of the k-th delivered batch
Rewritten(k) == PreInsertCallback(delivered[k], 0).output

\* the workers whose copyEachDoc is past the write
PastWrite == {w \in Workers : wouts[w] # <<>>}

\* C14 - Pre-write hook.  With the anonymizing preInsertCallback configured,
\* the batch a worker has written, and passes to postInsertCallback, is what
\* the callback made of a received batch; each rewritten id gets at most one
\* write attempt and holds the rewritten body (or what another client made of
\* it), no original id is ever written, postInsertCallback is invoked on
\* rewritten id lists only, and after a nil return every rewritten id is in
\* the target.
C14_PreHookOutputWritten ==
    preCb = "Anonymize" =>
        /\ \A w \in PastWrite : \E k \in 1 .. NumReceived : wbatch[w] = Rewritten(k)
        /\ \A w \in Workers : wpc[w] \in {"postGet", "postMutate"} => w \in PastWrite
        /\ \A i \in Ids :
              /\ attempts[i] = 0
              /\ i \notin preExisting => ~target[i].present
              /\ attempts[AnonId(i)] <= 1
              /\ target[AnonId(i)].present =>
                    /\ attempts[AnonId(i)] = 1
                    /\ target[AnonId(i)].val \in {AnonVal(SrcVal(i)), OobVal(AnonId(i))}
        /\ \A ids \in postCalled : \E k \in 1 .. NumReceived : ids = Rewritten(k).DocIds
        /\ ReturnedOK => \A i \in 1 .. Len(source) : target[AnonId(i)].present

\* both callbacks configured: postInsertCallback is at the second document
\* of the rewritten batch of the first page, which is in the target under
\* the rewritten ids
C14_Witness ==
    /\ preCb = "Anonymize"
    /\ postCb = "AddXATTRS"
    /\ \E w \in Workers :
          /\ wpc[w] = "postMutate"
          /\ wi[w] = 2
          /\ wbatch[w] = DocProcessorInput(<<AnonId(1), AnonId(2)>>,
                                           <<AnonVal(SrcVal(1)), AnonVal(SrcVal(2))>>)
    /\ target[AnonId(2)].val = AnonVal(SrcVal(2))
    /\ ~target[2].present

\* C15 - Batch shape.  For every batch the scan delivers, and wherever the
\* anonymizer may fail in it, preInsertCallback returns id and body sequences
\* of the batch's length; every position the loop reached holds the
\* anonymized id and body of the same input position, and equals what the
\* callback returns for the one-document batch made of that position.
C15_BatchShape ==
    preCb = "Anonymize" =>
        \A k \in 1 .. Len(delivered) :
            LET in == delivered[k]
                n == Len(in.DocIds)
            IN \A failAt \in 0 .. n :
                 LET r == PreInsertCallback(in, failAt) IN
                 /\ Len(r.output.DocIds) = n
                 /\ Len(r.output.Docs) = n
                 /\ (failAt = 0) = (r.err = Nil)
                 /\ \A i \in 1 .. n : (failAt = 0 \/ i < failAt) =>
                       LET one == PreInsertCallback(
                                      DocProcessorInput(<<in.DocIds[i]>>, <<in.Docs[i]>>), 0)
                       IN /\ r.output.DocIds[i] = AnonId(in.DocIds[i])
                          /\ r.output.Docs[i] = AnonVal(in.Docs[i])
                          /\ <<r.output.DocIds[i]>> = one.output.DocIds
                          /\ <<r.output.Docs[i]>> = one.output.Docs

\* the last page of a source of 3 documents scanned in pages of 2 was
\* rewritten and written as a batch of one, after a batch of two
C15_Witness ==
    /\ preCb = "Anonymize"
    /\ pageSize = 2
    /\ Len(delivered) = 2
    /\ target[AnonId(1)].present /\ target[AnonId(2)].present
    /\ \E w \in Workers :
          /\ wbatch[w] = DocProcessorInput(<<AnonId(3)>>, <<AnonVal(SrcVal(3))>>)
          /\ wouts[w] = <<"ok">>

\* C16 - No pre-write hook.  Without a preInsertCallback the batch a worker
\* has written is, position by position, a batch the scan delivered, each
\* item written by it is in the target under the scanned id with the scanned
\* body, and the target holds nothing else but what it held before the run.
C16_NoPreHookIdentity ==
    preCb = "nil" =>
        /\ \A w \in PastWrite : \E k \in 1 .. NumReceived :
              /\ wbatch[w].DocIds = delivered[k].DocIds
              /\ wbatch[w].Docs = delivered[k].Docs
              /\ \A j \in 1 .. Len(wouts[w]) : wouts[w][j] = "ok" =>
                    /\ target[delivered[k].DocIds[j]].present
                    /\ target[delivered[k].DocIds[j]].val = delivered[k].Docs[j]
        /\ \A i \in TargetIds \ preExisting : target[i].present =>
              /\ i <= Len(source)
              /\ source[i].id = i
              /\ target[i].val = source[i].value
              /\ attempts[i] = 1

\* a plain copy of 4 documents in pages of 2 has returned nil
C16_Witness ==
    /\ preCb = "nil"
    /\ postCb = "nil"
    /\ ReturnedOK
    /\ Len(source) = 4
    /\ pageSize = 2
    /\ \A i \in 1 .. 4 : target[i].present /\ target[i].val = SrcVal(i)

\* the ids of a batch
IdsOf(ids) == {ids[j] : j \in 1 .. Len(ids)}

\* C17 - Post-write hook.  postInsertCallback is invoked only on batches of
\* which every item was written by this run with one write attempt; a worker
\* inside the callback has a write without a failed item behind it; a
\* document carries the extended attribute only if its batch was handed to
\* the callback, and was mutated by it at most once (cas 1 from the insert, 2
\* from the attach); and after a write with a failed item the callback was
\* not invoked and the items that were written carry no extended attribute.
C17_PostHookAfterFullSuccess ==
    /\ \A ids \in postCalled : \A i \in IdsOf(ids) :
          /\ target[i].present
          /\ i \notin preExisting
          /\ attempts[i] = 1
    /\ \A w \in Workers : wpc[w] \in {"postGet", "postMutate"} =>
          /\ wbatch[w].DocIds \in postCalled
          /\ Len(wouts[w]) = Len(wbatch[w].DocIds)
          /\ \A k \in 1 .. Len(wouts[w]) : wouts[w][k] = "ok"
    /\ \A i \in TargetIds :
          /\ target[i].cas <= 2
          /\ target[i].xattr # "none" =>
                /\ target[i].cas = 2
                /\ \E ids \in postCalled : i \in IdsOf(ids)
    /\ \A w \in Workers :
          (\E k \in 1 .. Len(wouts[w]) : wouts[w][k] # "ok") =>
              /\ wbatch[w].DocIds \notin postCalled
              /\ \A j \in 1 .. Len(wouts[w]) : wouts[w][j] = "ok" =>
                    /\ target[wbatch[w].DocIds[j]].present
                    /\ target[wbatch[w].DocIds[j]].xattr = "none"

\* the run ended on the bulk write of <<1, 2>>, of which 1 was written and 2
\* collided: 1 has no extended attribute, while document 3 of the next
\* batch has one
C17_Witness ==
    /\ postCb = "AddXATTRS"
    /\ crashed
    /\ \E w \in Workers :
          /\ wouts[w] = <<"ok", "KeyExists">>
          /\ wbatch[w].DocIds = <<1, 2>>
    /\ target[1].present /\ target[1].xattr = "none"
    /\ target[3].xattr = SourceName

\* the document postInsertCallback of worker w is at
HookDoc(w) == wbatch[w].DocIds[wi[w]]

\* C18 - CAS guard.  When the document's cas is no longer the one the
\* callback read, the step of the mutation leaves the target as it is and
\* returns the CAS-mismatch error of that document, which is not the
\* KeyNotFound error; and the document a worker stopped on with that error
\* has the body the other client gave it, a cas other than the one read, and
\* no extended attribute.
C18_CasGuard ==
    /\ [][\A w \in Workers :
             (/\ wpc[w] = "postMutate"
              /\ wpc'[w] # "postMutate"
              /\ target[HookDoc(w)].present
              /\ target[HookDoc(w)].cas # wcas[w]) =>
                 /\ target' = target
                 /\ werr'[w] = Err("CasMismatch", {HookDoc(w)})
                 /\ werr'[w].kind # "KeyNotFound"
                 /\ wpc'[w] = "panic"]_vars
    /\ [](\A w \in Workers : werr[w].kind = "CasMismatch" =>
             /\ target[HookDoc(w)].val = OobVal(HookDoc(w))
             /\ target[HookDoc(w)].cas # wcas[w]
             /\ target[HookDoc(w)].xattr = "none")

\* another client rewrote document 1 between the callback's Get and its
\* mutation, and the mutation came back with the CAS-mismatch error
C18_Witness ==
    /\ oob
    /\ \E w \in Workers :
          /\ wpc[w] = "panic"
          /\ werr[w] = Err("CasMismatch", {1})
          /\ wcas[w] = 1
    /\ target[1].val = OobVal(1)
    /\ target[1].cas = 2
    /\ target[1].xattr = "none"

\* C19 - Conflict isolation.  A CAS mismatch on the attach of one document
\* does not stop the worker or the run: the worker that met it neither
\* panics nor is the process terminated.
C19_ConflictIsolation ==
    \A w \in Workers :
        werr[w].kind = "CasMismatch" => (wpc[w] \notin {"panic", "dead"} /\ ~crashed)

\* the documents postInsertCallback has returned from without error
Attached ==
    {i \in TargetIds :
        /\ \E ids \in postCalled : i \in IdsOf(ids)
        /\ ~\E w \in Workers :
              /\ wpc[w] \in {"postGet", "postMutate", "panic", "dead"}
              /\ \E j \in wi[w] .. Len(wbatch[w].DocIds) : j >= 1 /\ wbatch[w].DocIds[j] = i}

\* C20 - Metadata round-trip.  For every document the callback has attached
\* the extended attribute to, GetXattrs(docId, "Metadata") returns without
\* error a record whose UpstreamSource is the name of the source bucket, and
\* the document's body is the body that was inserted.
C20_MetadataRoundTrip ==
    \A i \in Attached :
        LET r == GetXattrs(target, i, "Metadata") IN
        /\ r.err = Nil
        /\ r.xattrVal.UpstreamSource = SourceName
        /\ target[i].val = SrcVal(i)

\* CopyBucketAddXATTRS has returned nil over a source of 3 documents, and
\* the read-back of document 2 yields the source bucket's name
C20_Witness ==
    /\ postCb = "AddXATTRS"
    /\ ReturnedOK
    /\ Len(source) = 3
    /\ Attached = {1, 2, 3}
    /\ GetXattrs(target, 2, "Metadata").xattrVal.UpstreamSource = SourceName
    /\ target[2].val = SrcVal(2)

\* C21 - Metadata provenance.  A document of the target that carries the
\* extended attribute was not in the target before the run, got exactly one
\* write attempt of this run, and belongs to a batch postInsertCallback was
\* invoked on; a document that was in the target before the run has none.
C21_MetadataProvenance ==
    /\ \A i \in TargetIds : target[i].xattr # "none" =>
          /\ i \notin preExisting
          /\ target[i].present
          /\ attempts[i] = 1
          /\ \E ids \in postCalled : i \in IdsOf(ids)
    /\ \A i \in preExisting : target[i].present /\ target[i].xattr = "none"

\* document 1 was copied and got the attribute; the insert of document 2,
\* which was in the target, failed, and 2 is as it was
C21_Witness ==
    /\ preExisting = {2}
    /\ target[1].xattr = SourceName
    /\ \E w \in Workers : werr[w] = Err("KeyExists", {2})
    /\ target[2].xattr = "none"
    /\ target[2].val \in {OldVal(2), OobVal(2)}

\* number of rows in the first k batches the scan delivered
RowsBefore(k) ==
    Cardinality(UNION {{<<b, j>> : j \in 1 .. Len(delivered[b].DocIds)} :
                          b \in 1 .. k})

\* C25 - No rollback.  No step removes a document from the target or gives
\* it another body (but for the other client's rewrite); and every item a
\* worker's last write reported as written is in the target with the body of
\* the batch, also after the write returned an error and after the process
\* was terminated.
C25_NoRollback ==
    /\ [][\A i \in TargetIds : target[i].present =>
             /\ target'[i].present
             /\ target'[i].val \in {target[i].val, OobVal(i)}]_vars
    /\ [](\A w \in PastWrite : \A j \in 1 .. Len(wouts[w]) : wouts[w][j] = "ok" =>
             /\ target[wbatch[w].DocIds[j]].present
             /\ target[wbatch[w].DocIds[j]].val \in
                   {wbatch[w].Docs[j], OobVal(wbatch[w].DocIds[j])})

\* the process was terminated after a bulk request timed out with its first
\* item written: document 1 is in the target
C25_Witness ==
    /\ crashed
    /\ preCb = "nil"
    /\ \E w \in Workers :
          /\ werr[w].kind = "BulkTimeout"
          /\ wouts[w] = <<"ok", "cancelled">>
    /\ target[1].present
    /\ target[1].val = SrcVal(1)
    /\ ~target[2].present

\* C27 - Scan offset.  skip is 0 before the first page query, is at every
\* moment the number of rows of all pages returned so far, never exceeds the
\* number of rows of the view, and no step decreases it; a page query that
\* succeeds advances it by the number of rows of the page it is issued for.
C27_ScanOffset ==
    /\ [](/\ skip = RowsBefore(Len(delivered))
          /\ skip <= Len(source)
          /\ numQueries = 0 => skip = 0)
    /\ [][skip' >= skip]_vars
    /\ [][(numQueries' # numQueries /\ ppc' # "returned") =>
            skip' = skip + Len(ViewPage(source, pageSize, skip))]_vars

\* the third page query of a scan of 3 rows in pages of 2 was issued at
\* offset 3 and came back empty
C27_Witness ==
    /\ Len(source) = 3
    /\ pageSize = 2
    /\ numQueries = 3
    /\ skip = 3
    /\ Len(delivered) = 2

\* C28 - Write-path selection.  For the batch a worker is about to write,
\* whatever the store does, copyEachDoc sends one request: an Insert of the
\* one key for a batch of length 1, and otherwise a bulk request with the
\* keys of the batch in batch order; and the outcomes of a worker's last
\* write are as many as the batch has items, a batch of one never showing
\* the outcome of a bulk request.
C28_WritePath ==
    /\ \A w \in Workers : wpc[w] = "copy" =>
          \A f \in FaultChoices(Len(wbatch[w].DocIds)) :
              LET pre == ApplyPre(wbatch[w], f)
                  ids == pre.input.DocIds
                  r == WriteBatch(target, pre.input, f)
              IN pre.err = Nil =>
                    /\ Len(r.reqs) = 1
                    /\ Len(ids) = 1 => r.reqs[1] = [op |-> "Insert", keys |-> <<ids[1]>>]
                    /\ Len(ids) > 1 => r.reqs[1] = [op |-> "Do", keys |-> ids]
                    /\ Len(r.outs) = Len(ids)
    /\ \A w \in PastWrite :
          /\ Len(wouts[w]) = Len(wbatch[w].DocIds)
          /\ Len(wouts[w]) = 1 =>
                (wouts[w][1] # "cancelled" /\ werr[w].kind # "BulkTimeout")

\* after the bulk write of <<1, 2>> the batch <<3>> was written by a single
\* Insert
C28_Witness ==
    /\ preCb = "nil"
    /\ pageSize = 2
    /\ target[1].present /\ target[2].present
    /\ \E w \in Workers :
          /\ wbatch[w].DocIds = <<3>>
          /\ wouts[w] = <<"ok">>
          /\ wpc[w] = "postGet"

\* C29 - One page is one batch.  The k-th batch the scan hands to the
\* document processor is, row by row, the page the view returns at the offset
\* of the rows of the batches before it: its id and body sequences have the
\* same length, between 1 and the page size; there are never more batches
\* than page queries; and no empty batch is held by the producer, on the
\* channel or by a worker.
C29_OnePageOneBatch ==
    /\ \A k \in 1 .. Len(delivered) :
          LET b == delivered[k]
              rows == ViewPage(source, pageSize, RowsBefore(k - 1))
          IN /\ Len(b.DocIds) = Len(b.Docs)
             /\ Len(b.DocIds) \in 1 .. pageSize
             /\ Len(b.DocIds) = Len(rows)
             /\ \A j \in 1 .. Len(rows) :
                   b.DocIds[j] = rows[j].id /\ b.Docs[j] = rows[j].value
    /\ Len(delivered) <= numQueries
    /\ ppc = "send" => (page = delivered[Len(delivered)] /\ page # EmptyInput)
    /\ \A k \in 1 .. Len(viewResultsChan) : viewResultsChan[k] # EmptyInput
    /\ \A w \in Holding : wbatch[w] # EmptyInput

\* the scan of 3 rows in pages of 2 has ended after handing on a batch of 2
\* and a batch of 1
C29_Witness ==
    /\ pageSize = 2
    /\ ppc = "returned"
    /\ numQueries = 3
    /\ Len(delivered) = 2
    /\ delivered[1].DocIds = <<1, 2>>
    /\ delivered[2].DocIds = <<3>>

\* C30 - Version token freshness.  A worker gets to the mutation of a
\* document only by the Get of that document, which stores the document's
\* cas of that moment; when the callback moves to another document or
\* returns, the worker is not at a mutation, so the stored cas is used by one
\* mutation, of the document it was read from; and the cas a worker at a
\* mutation holds is the document's, unless another client has rewritten the
\* document since.
C30_TokenFreshness ==
    /\ [][\A w \in Workers :
             (wpc'[w] = "postMutate" /\ (wpc[w] # "postMutate" \/ wi'[w] # wi[w])) =>
                 /\ wpc[w] = "postGet"
                 /\ wi'[w] = wi[w]
                 /\ wbatch'[w] = wbatch[w]
                 /\ wcas'[w] = target[HookDoc(w)].cas]_vars
    /\ [][\A w \in Workers : wi'[w] # wi[w] => wpc'[w] # "postMutate"]_vars
    /\ [][\A w \in Workers :
             (wpc[w] = "postMutate" /\ wpc'[w] = "postMutate") => wcas'[w] = wcas[w]]_vars
    /\ [](\A w \in Workers : wpc[w] = "postMutate" =>
             /\ wi[w] \in 1 .. Len(wbatch[w].DocIds)
             /\ \/ wcas[w] = target[HookDoc(w)].cas
                \/ /\ wcas[w] < target[HookDoc(w)].cas
                   /\ target[HookDoc(w)].val = OobVal(HookDoc(w)))

\* the callback has attached document 1 with the cas it read from 1 and is
\* at the mutation of document 2 with the cas it read from 2
C30_Witness ==
    /\ preCb = "nil"
    /\ \E w \in Workers :
          /\ wpc[w] = "postMutate"
          /\ wbatch[w].DocIds = <<1, 2>>
          /\ wi[w] = 2
          /\ wcas[w] = target[2].cas
    /\ target[1].xattr = SourceName
    /\ target[1].cas = 2
    /\ target[2].cas = 1

\* C24 - Malformed row.  No row that lacks the id, has an id that is not a
\* string, or lacks the value is among the rows of a page that was handed to
\* the document processor, and a scan of a view with such a row does not
\* return nil.
C24_MalformedRow ==
    /\ \A j \in 1 .. RowsBefore(Len(delivered)) : source[j].shape = "ok"
    /\ (\E j \in 1 .. Len(source) : source[j].shape # "ok") => ~ReturnedOK

\* C26 - Re-run idempotence.  A second run into a target that holds
\* documents of an interrupted first run does not end otherwise than by
\* returning nil, with every document of the source in the target and
\* carrying the extended attribute.
C26_RerunIdempotent ==
    (preExisting # {} /\ RunEnded) =>
        /\ ReturnedOK
        /\ \A i \in 1 .. Len(source) :
              target[i].present /\ target[i].xattr = SourceName

\* the (id, body) pairs in bucket t
Written(t) == {<<i, t[i].val>> : i \in {j \in TargetIds : t[j].present}}

\* C23 - Strategy equivalence.  A run of the view strategy into an empty
\* target ends as some run of the N1QL strategy over the same source ends:
\* it returns to its caller, with nil exactly if the N1QL run returns nil,
\* and the same (id, body) pairs are in the target.
C23_StrategyEquivalence ==
    (preExisting = {} /\ RunEnded) =>
        \E f \in N1qlFaults :
            LET n == N1qlRun(source, InitTarget({}), f)
            IN /\ ppc = "returned"
               /\ (retErr = Nil) = (n.err = Nil)
               /\ Written(target) = Written(n.t)

\* prefix put n times in front of current
RECURSIVE Prefixed(_, _, _)
Prefixed(prefix, current, n) ==
    IF n = 0 THEN current ELSE <<prefix>> \o Prefixed(prefix, current, n - 1)

\* C22 - Namespace relabel is not idempotent.  When call number k of
\* AddNameSpaceToTypeFieldViaSubdoc(p) has returned nil, the type field of
\* every document of the target is its original type with p in front k
\* times (p:<type> after one call, p:p:<type> after two); while call k runs,
\* every type field has p in front k - 1 or k times, so a call prefixes a
\* document at most once, and exactly once when it returns nil.
C22_RelabelNotIdempotent ==
    \A i \in preExisting :
        /\ docType[i] \in {Prefixed(namespacePrefix, OrigType(i), pass - 1),
                           Prefixed(namespacePrefix, OrigType(i), pass)}
        /\ ReturnedOK => docType[i] = Prefixed(namespacePrefix, OrigType(i), pass)
        /\ (ReturnedOK /\ pass = 1) => docType[i] = <<namespacePrefix>> \o OrigType(i)
        /\ (ReturnedOK /\ pass = 2) =>
              docType[i] = <<namespacePrefix, namespacePrefix>> \o OrigType(i)

\* the second call has returned nil on a target of two documents, one of
\* which had the namespace as its type
C22_Witness ==
    /\ ReturnedOK
    /\ pass = 2
    /\ Len(source) = 2
    /\ namespacePrefix = "app"
    /\ docType[1] = <<"app", "app", "airline">>
    /\ docType[2] = <<"app", "app", "app">>

\* C31 - Not-Found on the read-back is fatal.  When the Get of
\* postInsertCallback finds the document gone, the callback returns the
\* KeyNotFound error in that very step and changes nothing in the target;
\* from then on the worker is about to panic or has panicked, the documents
\* of the batch after the missing one carry no metadata record, and the
\* pipeline call does not return nil.
C31_NotFoundFatal ==
    /\ [][\A w \in Workers :
            (/\ wpc[w] = "postGet"
             /\ ~target[HookDoc(w)].present
             /\ <<wpc[w], wi[w]>>' # <<wpc[w], wi[w]>>)
            => /\ wpc'[w] = "panic"
               /\ werr'[w] = Err("KeyNotFound", {HookDoc(w)})
               /\ target' = target]_vars
    /\ [](\A w \in Workers :
            werr[w].kind = "KeyNotFound" =>
               /\ wpc[w] \in {"panic", "dead"}
               /\ wpc[w] = "panic" => (crashed \/ ENABLED Panic(w))
               /\ \A j \in (wi[w] + 1) .. Len(wbatch[w].DocIds) :
                     target[wbatch[w].DocIds[j]].xattr = "none"
               /\ ~ReturnedOK)

\* the second document of a batch of two was deleted after the write; the
\* first carries the record, the Get of the second failed, and the worker
\* has panicked
C31_Witness ==
    \E w \in Workers :
        /\ wpc[w] = "dead"
        /\ werr[w] = Err("KeyNotFound", {wbatch[w].DocIds[1]})
        /\ wi[w] = 1
        /\ Len(wbatch[w].DocIds) = 2
        /\ target[wbatch[w].DocIds[2]].present
        /\ target[wbatch[w].DocIds[2]].xattr = "none"

\* C32 - Unconditional relabel is last writer wins.  The Get of a document
\* reads the type field the target holds at that moment; the worker keeps
\* that value and its position until its Set; the Set writes the prefix put
\* in front of that value whatever the field has become since, and no worker
\* ever gets a CAS mismatch.
C32_LastWriterWins ==
    /\ [][\A w \in Workers :
            /\ (wpc[w] = "typeGet" /\ wpc'[w] = "typeSet")
                  => /\ wtype'[w] = docType[HookDoc(w)]
                     /\ wi'[w] = wi[w]
            /\ (wpc[w] = "typeSet" /\ wpc'[w] = "typeSet")
                  => /\ wtype'[w] = wtype[w]
                     /\ wi'[w] = wi[w]
                     /\ wbatch'[w] = wbatch[w]
            /\ (wpc[w] = "typeSet" /\ wpc'[w] \notin {"typeSet", "panic"})
                  => /\ docType'[HookDoc(w)] = <<namespacePrefix>> \o wtype[w]
                     /\ target'[HookDoc(w)].cas = target[HookDoc(w)].cas + 1]_vars
    /\ [](\A w \in Workers : werr[w].kind # "CasMismatch")

\* a lost update in the first call: document 2 was written twice (cas 3),
\* by the other client and then by the Set, and its type is the prefix in
\* front of the original type, which the other client had replaced
C32_Witness ==
    /\ pass = 1
    /\ ~storeFaulty
    /\ target[2].cas = 3
    /\ docType[2] = <<namespacePrefix>> \o OrigType(2)
    /\ docType[2] # <<namespacePrefix>> \o OobType

\* C33 - No retries.  No document is submitted to the target for writing
\* more than once.  An error is reported the first time it occurs: a worker
\* that holds an error, or a failed item, is about to panic or has panicked,
\* keeps its batch and submits nothing more; once the scan has returned, with
\* the error of a page query or otherwise, no further page query is issued.
C33_NoRetries ==
    /\ [](\A i \in TargetIds : attempts[i] <= 1)
    /\ [](retErr # Nil => ppc = "returned")
    /\ [](\A w \in Workers :
            (werr[w] # Nil \/ \E k \in 1 .. Len(wouts[w]) : wouts[w][k] = "TempFail")
               => wpc[w] \in {"panic", "dead"})
    /\ [][/\ ppc = "returned" => (ppc' = "returned" /\ numQueries' = numQueries
                                  /\ retErr' = retErr)
          /\ \A w \in Workers :
               wpc[w] \in {"panic", "dead"}
                  => /\ wpc'[w] \in {"panic", "dead"}
                     /\ wbatch'[w] = wbatch[w]
                     /\ \A i \in IdsOf(wbatch[w].DocIds) : attempts'[i] = attempts[i]]_vars

\* the write of the second document of a batch failed once, the worker has
\* panicked, and the page query after it has failed and was returned
C33_Witness ==
    \E w \in Workers :
        /\ wpc[w] = "dead"
        /\ Len(wouts[w]) = 2
        /\ wouts[w][2] = "TempFail"
        /\ attempts[wbatch[w].DocIds[2]] = 1
        /\ ppc = "returned"
        /\ retErr = Err("ViewQuery", {})
        /\ numQueries = 2

\* C34 - Early termination waits for in-flight work.  When the pipeline call
\* has returned the error of the scan (a failed page query or a malformed
\* row), no batch is left in the channel and no batch is still being
\* processed by a worker.
C34_EarlyTerminationWaits ==
    (ppc = "returned" /\ retErr # Nil) =>
        /\ viewResultsChan = <<>>
        /\ wg = 0

\* C35 - Liveness.  On a run into an empty target with a store that returns
\* no errors, under fair scheduling of the producer and the workers, the
\* pipeline call eventually returns nil; until then some goroutine can take
\* a step, so producer and workers never block each other on the channel.
C35_Liveness ==
    /\ CleanRun => <>ReturnedOK
    /\ []((CleanRun /\ ~ReturnedOK) => ENABLED NextLive)
    /\ [](\A w \in Workers : wpc[w] # "panic")

\* a scan of more pages than the channel holds has returned nil
C35_Witness ==
    /\ CleanRun
    /\ ReturnedOK
    /\ numGo = 1
    /\ pageSize = 1
    /\ numSent = MaxDocs
    /\ numSent > viewResultsChanBufferSize

\* the ids of the batches bs, in the order of their delivery
RECURSIVE FlatIds(_)
FlatIds(bs) == IF bs = <<>> THEN <<>> ELSE Head(bs).DocIds \o FlatIds(Tail(bs))

\* the source is as it was when the scan began
Static == source # <<>> /\ source[1].id = FirstId /\ Len(source) = source[Len(source)].id - 1

\* C36 - Offset paging is not snapshot-isolated.  The scan has delivered as
\* many documents as its offset says.  While the source has not changed, the
\* documents delivered are the first rows of the view, each once and in view
\* order, and a scan that ends with nil has delivered every document.  (With
\* a change before the offset a document that was there all along is lost or
\* delivered twice: the witness.)
C36_OffsetPaging ==
    /\ Len(FlatIds(delivered)) = skip
    /\ Static =>
          /\ skip <= Len(source)
          /\ \A k \in 1 .. Min(skip, Len(source)) : FlatIds(delivered)[k] = source[k].id
          /\ (ppc \in {"wait", "returned"} /\ retErr = Nil) => skip = Len(source)

\* the scan has returned nil after document 2 was deleted behind its offset:
\* document 3, in the source from the start to the end, was never delivered
C36_Witness ==
    /\ ReturnedOK
    /\ \E k \in 1 .. Len(source) : source[k].id = 3
    /\ \A k \in 1 .. Len(FlatIds(delivered)) : FlatIds(delivered)[k] # 3
    /\ target[4].present
    /\ ~target[3].present

\* C37 - The per-document scan terminates.  A page query of the
\* per-document scan that comes back with zero rows is the last one: the
\* scan returns nil to its caller.
C37_PerDocTerminates ==
    [][(/\ ppc = "query"
        /\ ~storeFaulty
        /\ ViewPage(source, pageSize, skip) = <<>>
        /\ numQueries' = numQueries + 1)
       => (ppc' = "returned" /\ retErr' = Nil)]_vars

\* C38 (as stated) - A scan that has ended with nil has issued
\* floor(M/P) + 1 page queries, for M documents and page size P.
C38_FloorPlusOne ==
    (ppc \in {"wait", "returned"} /\ retErr = Nil) =>
        numQueries = (Len(source) \div pageSize) + 1

\* C38 - Page queries of a successful scan.  A scan that has ended with nil
\* has issued one page query for every non-empty page, ceil(M/P) of them,
\* and one more that came back empty: the offset is then M.  This is
\* floor(M/P) + 1 only when P divides M.
C38_PageQueries ==
    (ppc \in {"wait", "returned"} /\ retErr = Nil) =>
        /\ numQueries = NumPages(Len(source), pageSize) + 1
        /\ skip = Len(source)
        /\ ViewPage(source, pageSize, skip) = <<>>
        /\ Len(source) % pageSize = 0 => numQueries = (Len(source) \div pageSize) + 1

\* 3 documents in pages of 2: a page of 2, a page of 1 and the empty page
C38_Witness ==
    /\ ReturnedOK
    /\ Len(source) = 3
    /\ pageSize = 2
    /\ numQueries = 3
    /\ Len(delivered) = 2
    /\ Len(delivered[2].DocIds) = 1

=============================================================================
